---- MODULE Spec2Model ----
(***************************************************************************)
(* Model of the Eclipse data-acquisition core.                             *)
(*                                                                         *)
(*   - RTEClient (rte_client.py): OAuth2 token lifecycle with a disk       *)
(*     cache, and the authenticated request with one refresh-and-retry.    *)
(*   - format_ts (utils.py): alignment of a series on a UTC grid.          *)
(*   - get_hourly_load (enstoe_client.py): hourly load across the          *)
(*     threshold where upstream turns from hourly to 15-minute samples.    *)
(*   - get_averaged (open_meteo_client.py): weighted temperature.          *)
(*   - get_short_term_consumption (rte_client.py): consumption rows.       *)
(*                                                                         *)
(* Time is counted in whole seconds for the token clock and in whole       *)
(* minutes for the series timestamps.                                      *)
(***************************************************************************)
EXTENDS Integers, Sequences, FiniteSets, TLC

\* ------------------------------------------------------------------------
\* Bounds of the model
\* ------------------------------------------------------------------------
MaxTicks == 1          \* number of clock advances explored
MaxOps == 2            \* number of client operations explored
RoundTrip == 1         \* seconds one token-endpoint exchange takes
MaxLen == 2            \* longest input series of format_ts

\* ------------------------------------------------------------------------
\* Values
\* ------------------------------------------------------------------------
NoToken == "None"                       \* Python None for the token
Tokens == {"tok-a", "tok-b"}            \* tokens the endpoint can issue
Absent == -1                            \* a JSON field that is not there
NonNumeric == -2                        \* an expiry float() cannot convert
DefaultLifetime == 3600
ValidityMargin == 10
ExpiresIn == {Absent, 0, 20, 3600}      \* expires_in declared by the endpoint
TickSteps == {3589, 3590}               \* clock advances between operations
Statuses == {200, 401, 403, 500}        \* API response statuses
Transport == 0                          \* requests.RequestException on a call
NoCall == -1                            \* the call was not made
NoResp == [call |-> 0, status |-> NoCall]

\* What the cache file can hold when a client is constructed.
DiskRecords ==
    {[kind |-> k, access_token |-> NoToken, expiry |-> Absent] :
        k \in {"missing", "invalid_json", "not_object"}}
    \cup
    {[kind |-> "object", access_token |-> a, expiry |-> e] :
        a \in {NoToken, "tok-a"}, e \in {Absent, NonNumeric, 5000}}

\* What the token endpoint can answer to one POST.
TokenReplies ==
    {[net |-> FALSE, status |-> 0, json |-> FALSE, access_token |-> NoToken,
      token_type |-> FALSE, expires_in |-> Absent]}
    \cup
    {[net |-> TRUE, status |-> 500, json |-> TRUE, access_token |-> NoToken,
      token_type |-> FALSE, expires_in |-> Absent]}
    \cup
    {[net |-> TRUE, status |-> 200, json |-> FALSE, access_token |-> NoToken,
      token_type |-> FALSE, expires_in |-> Absent]}
    \cup
    {[net |-> TRUE, status |-> 200, json |-> TRUE, access_token |-> NoToken,
      token_type |-> TRUE, expires_in |-> 3600]}
    \cup
    {[net |-> TRUE, status |-> 200, json |-> TRUE, access_token |-> "tok-a",
      token_type |-> FALSE, expires_in |-> 3600]}
    \cup
    {[net |-> TRUE, status |-> 200, json |-> TRUE, access_token |-> a,
      token_type |-> TRUE, expires_in |-> e] : a \in Tokens, e \in ExpiresIn}

\* How the write of the cache file can end.
WriteOutcomes == {"ok", "open_error", "write_error"}

VARIABLES
    access_token,       \* RTEClient._access_token
    token_expiry,       \* RTEClient._token_expiry
    token_cache_file,   \* RTEClient._token_cache_file is set
    disk,               \* content of the cache file
    now,                \* time.time()
    ticks,              \* clock advances so far
    ops,                \* client operations so far
    fetched,            \* last successful exchange of this client
    last,               \* the last operation and what it did
    fmt_pc,             \* position of the format_ts caller
    args,               \* arguments of format_ts
    out1,               \* format_ts(ts, ...)
    out2,               \* format_ts(format_ts(ts, ...), ...)
    ext_pc,             \* position of the caller of a source client
    job,                \* the call: its arguments and what upstream answers
    res                 \* what the call returned or raised

clientVars == <<access_token, token_expiry, token_cache_file, disk, now,
                ticks, ops, fetched, last>>
fmtVars == <<fmt_pc, args, out1, out2>>
extVars == <<ext_pc, job, res>>
vars == <<access_token, token_expiry, token_cache_file, disk, now, ticks, ops,
          fetched, last, fmt_pc, args, out1, out2, ext_pc, job, res>>

Self == [access_token |-> access_token, token_expiry |-> token_expiry,
         disk |-> disk]

NoFetch == [at |-> -1, expires_in |-> Absent, token |-> NoToken]

\* ------------------------------------------------------------------------
\* Token helpers
\* ------------------------------------------------------------------------

\* Faulty variant: the token read before float() fails is kept.
load_token_from_file_keeps(d) ==
    IF d.kind # "object"
    THEN [access_token |-> NoToken, token_expiry |-> 0]
    ELSE [access_token |-> d.access_token,
          token_expiry |-> IF d.expiry \in {Absent, NonNumeric}
                           THEN 0 ELSE d.expiry]

\* _load_token_from_file: any exception leaves no token and expiry 0.
load_token_from_file(d) ==
    IF d.kind # "object" \/ d.expiry = NonNumeric
    THEN [access_token |-> NoToken, token_expiry |-> 0]
    ELSE [access_token |-> d.access_token,
          token_expiry |-> IF d.expiry = Absent THEN 0 ELSE d.expiry]

\* __init__: the token state of a new client.
init(cache_file, d) ==
    IF cache_file THEN load_token_from_file(d)
    ELSE [access_token |-> NoToken, token_expiry |-> 0]

\* _save_token_to_file: nothing without a cache file; open() and json.dump
\* are not guarded, so their failure leaves the method as an OSError.
save_token_to_file(s, cache_file, wr) ==
    IF ~cache_file THEN [s |-> s, raised |-> "none"]
    ELSE IF wr = "open_error" THEN [s |-> s, raised |-> "OSError"]
    ELSE IF wr = "write_error"
    THEN [s |-> [s EXCEPT !.disk = [kind |-> "invalid_json",
                                    access_token |-> NoToken,
                                    expiry |-> Absent]],
          raised |-> "OSError"]
    ELSE [s |-> [s EXCEPT !.disk = [kind |-> "object",
                                    access_token |-> s.access_token,
                                    expiry |-> s.token_expiry]],
          raised |-> "none"]

\* Faulty variant: validity without the safety margin.
is_token_valid_no_margin(s, t) ==
    s.access_token # NoToken /\ t < s.token_expiry

\* _is_token_valid
is_token_valid(s, t) ==
    s.access_token # NoToken /\ t + ValidityMargin < s.token_expiry

\* expiry computed from the body: a falsy expires_in takes the default.
compute_expiry(t, expires_in) ==
    IF expires_in # Absent /\ expires_in # 0 THEN t + expires_in
    ELSE t + DefaultLifetime

GetResult(s, ret, raised, posts, t, fetch) ==
    [s |-> s, ret |-> ret, raised |-> raised, posts |-> posts, t |-> t,
     fetch |-> fetch]

\* Faulty variant: a failed exchange drops the token held.
auth_failure_drops(s, t) ==
    GetResult([s EXCEPT !.access_token = NoToken, !.token_expiry = 0],
              NoToken, "RTEAuthError", 1, t, NoFetch)

\* raise RTEAuthError(...): the exchange is abandoned, nothing is assigned.
auth_failure(s, t) == GetResult(s, NoToken, "RTEAuthError", 1, t, NoFetch)

\* get_access_token at time t; ep is the endpoint's answer, lat its round
\* trip, wr the outcome of the cache write.
get_access_token(s, cache_file, t, force_refresh, ep, lat, wr) ==
    IF ~force_refresh /\ is_token_valid(s, t)
    THEN GetResult(s, s.access_token, "none", 0, t, NoFetch)
    ELSE IF ~ep.net THEN auth_failure(s, t + lat)
    ELSE IF ep.status # 200 THEN auth_failure(s, t + lat)
    ELSE IF ~ep.json THEN auth_failure(s, t + lat)
    ELSE IF ep.access_token = NoToken \/ ~ep.token_type
    THEN auth_failure(s, t + lat)
    ELSE LET expires == compute_expiry(t + lat, ep.expires_in)
             s1 == [s EXCEPT !.access_token = ep.access_token,
                             !.token_expiry = expires]
             sv == save_token_to_file(s1, cache_file, wr)
             f  == [at |-> t + lat, expires_in |-> ep.expires_in,
                    token |-> ep.access_token]
         IN  IF sv.raised # "none"
             THEN GetResult(sv.s, NoToken, sv.raised, 1, t + lat, f)
             ELSE GetResult(sv.s, sv.s.access_token, "none", 1, t + lat, f)

\* ------------------------------------------------------------------------
\* Inputs of one token exchange: the endpoint's answer, its round trip and
\* the outcome of the cache write, for the exchanges that take place.
\* ------------------------------------------------------------------------
NoReply == [net |-> FALSE, status |-> 0, json |-> FALSE,
            access_token |-> NoToken, token_type |-> FALSE,
            expires_in |-> Absent]

Granted(ep) ==
    ep.net /\ ep.status = 200 /\ ep.json /\ ep.access_token # NoToken
    /\ ep.token_type

\* which answer of the endpoint an exchange met
ReplyKind(ep, posts) ==
    IF posts = 0 THEN "none"
    ELSE IF ~ep.net THEN "network_error"
    ELSE IF ep.status # 200 THEN "non_200"
    ELSE IF ~ep.json THEN "unparsable"
    ELSE IF ep.access_token = NoToken THEN "no_access_token"
    ELSE IF ~ep.token_type THEN "no_token_type"
    ELSE "granted"

ExchangeInputs(s, cache_file, t, force_refresh) ==
    IF ~force_refresh /\ is_token_valid(s, t)
    THEN {[ep |-> NoReply, lat |-> 0, wr |-> "ok"]}
    ELSE {[ep |-> e, lat |-> l, wr |-> w] :
            e \in TokenReplies, l \in {RoundTrip}, w \in WriteOutcomes}
         \ {x \in [ep : TokenReplies, lat : {RoundTrip}, wr : WriteOutcomes] :
              x.wr # "ok" /\ (~cache_file \/ ~Granted(x.ep))}

\* ------------------------------------------------------------------------
\* format_ts (utils.py).  Timestamps are minutes; an aware timestamp holds
\* its UTC instant and the UTC offset of its zone, a naive one its wall clock.
\* ------------------------------------------------------------------------
HourMinutes == 60
NaN == -1
NoTz == [aware |-> FALSE, off |-> 0]            \* tzinfo is None
Tz(off) == [aware |-> TRUE, off |-> off]
UTC == Tz(0)
Paris == Tz(60)                                 \* Europe/Paris in winter

NoError == "none"
NaiveBoundsError == "ValueError: start and end must be timezone-aware"
NaiveIndexError == "ValueError: ts index is tz-naive"
EmptyIndexError == "IndexError"
TimedeltaError == "ValueError: Timedelta"
TargetIndexError == "ValueError: Failed to create target index"
ReindexError == "ValueError: Reindexing failed"

Freqs == {"1h", "15min", "invalid_freq"}

\* the frequency string is one pandas can parse
freq_parses(freq) == freq \in {"1h", "15min"}

\* pd.Timedelta(freq), in minutes
Timedelta(freq) == IF freq = "1h" THEN HourMinutes ELSE 15

\* Timestamp.floor("h") and Timestamp.ceil("h"): on the wall clock of the
\* timestamp's own zone; the result is given as a UTC instant.
floor_h(x) == (x.t + x.tz.off) - ((x.t + x.tz.off) % HourMinutes) - x.tz.off

ceil_h(x) ==
    IF (x.t + x.tz.off) % HourMinutes = 0 THEN x.t
    ELSE floor_h(x) + HourMinutes

\* DatetimeIndex.tz_localize(ts_tz) followed by tz_convert("UTC")
tz_localize(idx, ts_tz) == [i \in 1..Len(idx) |-> idx[i] - ts_tz.off]

\* pd.date_range(cut_start, cut_end, freq=freq, tz="UTC")
date_range(cut_start, cut_end, step) ==
    IF cut_start > cut_end THEN <<>>
    ELSE [i \in 1..((cut_end - cut_start) \div step + 1) |->
             cut_start + (i - 1) * step]

is_unique(idx) ==
    \A i, j \in 1..Len(idx) : idx[i] = idx[j] => i = j

\* the value Series.reindex puts at grid point g
value_at(idx, vals, g) ==
    IF \E i \in 1..Len(idx) : idx[i] = g
    THEN vals[CHOOSE i \in 1..Len(idx) : idx[i] = g]
    ELSE NaN

Failure(e) == [err |-> e, tz |-> UTC, idx |-> <<>>, vals |-> <<>>]

\* Series.reindex(target_index); a duplicated label makes it raise
reindex(idx, vals, target_index) ==
    IF ~is_unique(idx) THEN Failure(ReindexError)
    ELSE [err |-> NoError, tz |-> UTC, idx |-> target_index,
          vals |-> [i \in 1..Len(target_index) |->
                       value_at(idx, vals, target_index[i])]]

\* the start edge and the end edge before the trim (lines 69-72)
cut_start_of(start, include_start) ==
    IF include_start THEN floor_h(start) ELSE ceil_h(start)

cut_end_of(end, include_end) ==
    IF include_end THEN ceil_h(end) ELSE floor_h(end)

\* Faulty variant: only start is tested.
bounds_aware_start_only(start, end) == start.tz.aware

\* line 53 passes: neither bound has tzinfo None
bounds_aware(start, end) == start.tz.aware /\ end.tz.aware

format_ts(ts, start, end, ts_tz, freq, include_start, include_end, include_equal_end) ==
    IF ~bounds_aware(start, end) THEN Failure(NaiveBoundsError)
    ELSE IF ~ts.tz.aware /\ ~ts_tz.aware THEN Failure(NaiveIndexError)
    ELSE
    LET idx == IF ts.tz.aware THEN ts.idx ELSE tz_localize(ts.idx, ts_tz)
        cut_start == cut_start_of(start, include_start)
        cut_end0 == cut_end_of(end, include_end)
    IN
    IF ~include_equal_end /\ Len(idx) = 0 THEN Failure(EmptyIndexError)
    ELSE IF ~include_equal_end /\ ~freq_parses(freq)
    THEN Failure(TimedeltaError)
    ELSE
    LET cut_end ==
            IF ~include_equal_end /\ idx[Len(idx)] + Timedelta(freq) = end.t
            THEN cut_end0 - Timedelta(freq)
            ELSE cut_end0
    IN
    IF ~freq_parses(freq) THEN Failure(TargetIndexError)
    ELSE reindex(idx, ts.vals, date_range(cut_start, cut_end, Timedelta(freq)))

\* ------------------------------------------------------------------------
\* Arguments explored for format_ts
\* ------------------------------------------------------------------------
SampleTimes == {0, 45, 60}
StartTimes == {30, 60, 120}
EndTimes == {60, 75, 120}
BoundZones == {UTC, Paris, NoTz}
SampleValues == <<1, 2, 3>>

Indexes == UNION {[1..n -> SampleTimes] : n \in 0..MaxLen}

SeriesOf(tz, idx) ==
    [tz |-> tz, idx |-> idx,
     vals |-> [i \in 1..Len(idx) |-> SampleValues[((i - 1) % 3) + 1]]]

NoSeries == Failure(NoError)

FmtIdle ==
    [ts |-> SeriesOf(UTC, <<>>), start |-> [t |-> 0, tz |-> UTC],
     end |-> [t |-> 0, tz |-> UTC], ts_tz |-> NoTz, freq |-> "1h",
     include_start |-> TRUE, include_end |-> FALSE,
     include_equal_end |-> FALSE]

\* ------------------------------------------------------------------------
\* get_hourly_load (enstoe_client.py).  Minute 0 is two hours before the
\* threshold; load values are whole numbers.
\* ------------------------------------------------------------------------
THRESHOLD == [t |-> 120, tz |-> Paris]
Horizon == 240

NoJob == [fn |-> "none"]
NoRes == [fn |-> "none"]

ExtIdle ==
    /\ ext_pc = "off"
    /\ job = NoJob
    /\ res = NoRes

\* the k-th smallest element of a set of numbers, and the set in order
kth(S, k) == CHOOSE x \in S : Cardinality({y \in S : y < x}) = k - 1

SortedSeq(S) == [k \in 1..Cardinality(S) |-> kth(S, k)]

\* the timestamps of a series
Stamps(o) == {o.idx[i] : i \in 1..Len(o.idx)}

RECURSIVE Sum(_, _)
Sum(vals, P) ==
    IF P = {} THEN 0
    ELSE LET i == CHOOSE i \in P : TRUE
         IN  vals[i] + Sum(vals, P \ {i})

\* mean() of the samples at positions P that are not missing; the sample
\* values explored keep it whole
mean(vals, P) ==
    LET Q == {i \in P : vals[i] # NaN}
    IN  IF Q = {} THEN NaN ELSE Sum(vals, Q) \div Cardinality(Q)

\* ts.resample("1h").mean() of a series on a UTC grid
resample_mean(o) ==
    IF Len(o.idx) = 0 THEN o
    ELSE LET n == Len(o.idx)
             bins == date_range(o.idx[1] - (o.idx[1] % HourMinutes),
                                o.idx[n] - (o.idx[n] % HourMinutes),
                                HourMinutes)
             within(b) == {i \in 1..n : b <= o.idx[i]
                                         /\ o.idx[i] < b + HourMinutes}
         IN  [o EXCEPT !.idx = bins,
                       !.vals = [k \in 1..Len(bins) |->
                                    mean(o.vals, within(bins[k]))]]

\* pd.concat([a, b])
concat(a, b) ==
    [err |-> NoError, tz |-> UTC, idx |-> a.idx \o b.idx,
     vals |-> a.vals \o b.vals]

\* Faulty variant: keep="first".
duplicated_keep_first(idx) ==
    {i \in 1..Len(idx) : \E j \in 1..(i - 1) : idx[j] = idx[i]}

\* index.duplicated(keep="last"): the positions marked as duplicates
duplicated_keep_last(idx) ==
    {i \in 1..Len(idx) : \E j \in (i + 1)..Len(idx) : idx[j] = idx[i]}

\* ts[~mask]
drop(o, marked) ==
    LET P == SortedSeq((1..Len(o.idx)) \ marked)
    IN  [o EXCEPT !.idx = [k \in 1..Len(P) |-> o.idx[P[k]]],
                  !.vals = [k \in 1..Len(P) |-> o.vals[P[k]]]]

NaiveWindowError == "ValueError: start and end timestamps must be timezone-aware"

LoadResult(out, before, after, stitched) ==
    [fn |-> "get_hourly_load", out |-> out, before |-> before,
     after |-> after, stitched |-> stitched]

\* format_ts(ts, start=..., end=..., include_start=False[, freq=...])
format_load(ts, start, end, freq) ==
    format_ts([tz |-> ts.tz, idx |-> ts.idx, vals |-> ts.vals],
              start, end, NoTz, freq, FALSE, FALSE, FALSE)

\* hourly is what query_load answers for a window that ends at or before
\* the threshold, quarter what it answers for one that starts at or after it
get_hourly_load(start, end, hourly, quarter) ==
    IF ~start.tz.aware \/ ~end.tz.aware
    THEN LoadResult(Failure(NaiveWindowError), NoSeries, NoSeries, NoSeries)
    ELSE IF end.t <= THRESHOLD.t
    THEN LoadResult(format_load(hourly, start, end, "1h"),
                    NoSeries, NoSeries, NoSeries)
    ELSE IF start.t >= THRESHOLD.t
    THEN LET ts == format_load(quarter, start, end, "15min")
         IN  LoadResult(IF ts.err # NoError THEN ts ELSE resample_mean(ts),
                        NoSeries, NoSeries, NoSeries)
    ELSE
    LET ts_before == format_load(hourly, start, THRESHOLD, "1h")
        ts_after15 == format_load(quarter, THRESHOLD, end, "15min")
        ts_after == resample_mean(ts_after15)
        both == concat(ts_before, ts_after)
        ts == drop(both, duplicated_keep_last(both.idx))
    IN
    IF ts_before.err # NoError
    THEN LoadResult(ts_before, ts_before, NoSeries, NoSeries)
    ELSE IF ts_after15.err # NoError
    THEN LoadResult(ts_after15, ts_before, ts_after15, NoSeries)
    ELSE LoadResult(format_load(ts, start, end, "1h"),
                    ts_before, ts_after, ts)

\* Windows and upstream answers explored
LoadStarts == {0, 30, 60, 120, 135}
LoadEnds == {60, 120, 180, 210, 240}
LoadZones == {<<UTC, UTC>>, <<Paris, Paris>>, <<NoTz, UTC>>}

HourlyLoad(p) == 100 + p \div HourMinutes
QuarterLoad(p) == 12 * (1 + ((p \div 15) % 4))

\* the answers query_load can give for [lo, hi]: any of the samples of the
\* native step in the window, the one at hi included or not
Answers(lo, hi, step) ==
    {[tz |-> UTC, idx |-> SortedSeq(S),
      vals |-> [k \in 1..Cardinality(S) |->
                   IF step = HourMinutes THEN HourlyLoad(kth(S, k))
                   ELSE QuarterLoad(kth(S, k))]] :
       S \in SUBSET {p \in 0..Horizon : p % step = 0 /\ lo <= p /\ p <= hi}}

Min(a, b) == IF a < b THEN a ELSE b
Max(a, b) == IF a > b THEN a ELSE b

\* ------------------------------------------------------------------------
\* get_averaged (open_meteo_client.py).  Temperatures are whole numbers.
\* ------------------------------------------------------------------------
Cities == <<"paris", "lyon">>                   \* keys of cities_cfg
Weight(city) == IF city = "paris" THEN 3 ELSE 1
Attributes == {"cities_cfg", "timezone", "base_url"}
AttributeError == "AttributeError: object has no attribute 'cities'"
HTTPError == "HTTPError"
MeteoTimes == {0, 60}
Temperatures == {NaN, 4, 8}

\* what the archive answers for one city: a failure status, or a list of
\* hours with a temperature or null for each
CityAnswers ==
    {[status |-> 500, idx |-> <<>>, vals |-> <<>>]}
    \cup UNION {{[status |-> 200, idx |-> SortedSeq(S), vals |-> v] :
                    v \in [1..Cardinality(S) -> Temperatures]} :
                 S \in SUBSET MeteoTimes}

\* get_city: raise_for_status, then the frame (datetime, city)
get_city(answer) ==
    IF answer.status # 200 THEN Failure(HTTPError)
    ELSE [err |-> NoError, tz |-> NoTz, idx |-> answer.idx,
          vals |-> answer.vals]

\* Series * weight and Series + Series: a missing value stays missing
times(v, w) == IF v = NaN THEN NaN ELSE v * w
plus(a, b) == IF a = NaN \/ b = NaN THEN NaN ELSE a + b

\* sum(df["temp_<city>"] * weight for city ...) at row k, cities c..n
RECURSIVE weighted_sum(_, _, _)
weighted_sum(cols, k, c) ==
    IF c > Len(Cities) THEN 0
    ELSE plus(times(cols[c][k], Weight(Cities[c])),
              weighted_sum(cols, k, c + 1))

RECURSIVE total_weight(_)
total_weight(c) ==
    IF c > Len(Cities) THEN 0 ELSE Weight(Cities[c]) + total_weight(c + 1)

MeteoFailure(e) ==
    [fn |-> "get_averaged", err |-> e, datetime |-> <<>>, temp |-> <<>>,
     temp_FR |-> <<>>]

\* answers[c] is what the archive answers for the c-th city
get_averaged(answers) ==
    LET dfs == [c \in 1..Len(Cities) |-> get_city(answers[c])]
    IN
    IF \E c \in 1..Len(Cities) : dfs[c].err # NoError
    THEN MeteoFailure(HTTPError)
    ELSE
    LET datetime == SortedSeq({x \in Stamps(dfs[1]) :
                                 \A c \in 1..Len(Cities) : x \in Stamps(dfs[c])})
        cols == [c \in 1..Len(Cities) |->
                    [k \in 1..Len(datetime) |->
                        value_at(dfs[c].idx, dfs[c].vals, datetime[k])]]
    IN
    IF "cities" \notin Attributes THEN MeteoFailure(AttributeError)
    ELSE [fn |-> "get_averaged", err |-> NoError, datetime |-> datetime,
          temp |-> cols,
          temp_FR |-> [k \in 1..Len(datetime) |->
                          IF weighted_sum(cols, k, 1) = NaN THEN NaN
                          ELSE weighted_sum(cols, k, 1) \div total_weight(1)]]

\* ------------------------------------------------------------------------
\* get_short_term_consumption (rte_client.py)
\* ------------------------------------------------------------------------
PrevisionType == {"ID", "REALISED"}
NoDate == [t |-> -1, tz |-> NoTz]               \* start_date=None

\* the order of sort_values on the type column
TypeRank(type) == IF type = "ID" THEN 0 ELSE 1

ConsPoints == {0, 15, 30, 45, 60}
ConsValue(type, p) == 1000 * (TypeRank(type) + 1) + p

\* the query parameters built from the arguments (lines 223-231)
build_params(types, start_date, end_date) ==
    [type |-> types, start_date |-> start_date, end_date |-> end_date]

\* one block of the response: a variant and its values
Entry(type, S) ==
    [type |-> type,
     values |-> [k \in 1..Cardinality(S) |->
                    [start_date |-> kth(S, k),
                     value |-> ConsValue(type, kth(S, k))]]]

\* the answers of the consumption endpoint: a failure status, or for each
\* variant no block or a block with any of the points
ConsAnswers ==
    {[status |-> 500, short_term |-> <<>>]}
    \cup {[status |-> 200,
           short_term |->
               (IF a = {-1} THEN <<>> ELSE <<Entry("REALISED", a)>>)
               \o (IF b = {-1} THEN <<>> ELSE <<Entry("ID", b)>>)] :
            a \in SUBSET ConsPoints \cup {{-1}},
            b \in SUBSET ConsPoints \cup {{-1}}}

\* the rows of the frames of the entries e..n that have values, each with
\* its type column
RECURSIVE frames(_, _)
frames(data, e) ==
    IF e > Len(data) THEN <<>>
    ELSE [k \in 1..Len(data[e].values) |->
             [type |-> data[e].type,
              start_date |-> data[e].values[k].start_date,
              value |-> data[e].values[k].value]]
         \o frames(data, e + 1)

SortKey(row) == TypeRank(row.type) * (Horizon + 1) + row.start_date

\* df.sort_values(["type", "start_date"]).reset_index(drop=True)
sort_values(rows) ==
    LET keys == SortedSeq({SortKey(rows[i]) : i \in 1..Len(rows)})
    IN  [k \in 1..Len(keys) |->
            rows[CHOOSE i \in 1..Len(rows) : SortKey(rows[i]) = keys[k]]]

ConsResult(e, params, rows) ==
    [fn |-> "get_short_term_consumption", err |-> e, params |-> params,
     rows |-> rows]

get_short_term_consumption(types, start_date, end_date, answer) ==
    LET params == build_params(types, start_date, end_date)
    IN  IF answer.status # 200 THEN ConsResult(HTTPError, params, <<>>)
        ELSE ConsResult(NoError, params,
                        sort_values(frames(answer.short_term, 1)))

\* Arguments explored
TypesArgs == {<<>>, <<"ID">>, <<"REALISED", "ID">>}
ConsWindows ==
    {<<NoDate, NoDate>>}
    \cup {<<[t |-> st, tz |-> UTC], [t |-> en, tz |-> UTC]>> :
            st \in {0, 20}, en \in {37, 60}}

\* ------------------------------------------------------------------------
\* What an operation leaves for inspection
\* ------------------------------------------------------------------------
NoOp ==
    [op |-> "none", force |-> FALSE, flag |-> FALSE, hdr |-> NoToken,
     t0 |-> 0,
     raised |-> "none", ret |-> NoToken, resp |-> NoResp,
     posts |-> 0, forced |-> 0, reply |-> "none", wr |-> "ok",
     refresh_raised |-> "none",
     calls |-> 0, first |-> NoCall, second |-> NoCall,
     bearer1 |-> [scheme |-> "None", token |-> NoToken],
     bearer2 |-> [scheme |-> "None", token |-> NoToken],
     held1 |-> NoToken, held2 |-> NoToken]

\* ------------------------------------------------------------------------
\* Initial state: a client constructed on some content of the cache file
\* ------------------------------------------------------------------------
Init ==
    /\ token_cache_file \in BOOLEAN
    /\ disk \in DiskRecords
    /\ (~token_cache_file => disk.kind = "missing")
    /\ access_token = init(token_cache_file, disk).access_token
    /\ token_expiry = init(token_cache_file, disk).token_expiry
    /\ now = 0
    /\ ticks = 0
    /\ ops = 0
    /\ fetched = NoFetch
    /\ last = [NoOp EXCEPT !.op = "init"]
    /\ fmt_pc = "off"
    /\ args = FmtIdle
    /\ out1 = NoSeries
    /\ out2 = NoSeries
    /\ ExtIdle

\* The clock advances between operations, while the caller has one to make.
Tick ==
    /\ ticks < MaxTicks
    /\ ops < MaxOps
    /\ last.op # "request"
    /\ \E d \in TickSteps : now' = now + d
    /\ ticks' = ticks + 1
    /\ UNCHANGED <<access_token, token_expiry, token_cache_file, disk, ops,
                   fetched, last>>
    /\ UNCHANGED fmtVars
    /\ UNCHANGED extVars

\* A caller invokes get_access_token(force_refresh).
GetAccessToken ==
    /\ ops < MaxOps
    /\ \E force_refresh \in BOOLEAN :
       \E x \in ExchangeInputs(Self, token_cache_file, now, force_refresh) :
          LET g == get_access_token(Self, token_cache_file, now,
                                    force_refresh, x.ep, x.lat, x.wr)
          IN  /\ access_token' = g.s.access_token
              /\ token_expiry' = g.s.token_expiry
              /\ disk' = g.s.disk
              /\ now' = g.t
              /\ fetched' = IF g.fetch # NoFetch THEN g.fetch ELSE fetched
              /\ last' = [NoOp EXCEPT !.op = "get_access_token",
                                      !.force = force_refresh,
                                      !.t0 = now,
                                      !.raised = g.raised, !.ret = g.ret,
                                      !.posts = g.posts,
                                      !.forced = IF force_refresh THEN 1 ELSE 0,
                                      !.reply = ReplyKind(x.ep, g.posts),
                                      !.wr = x.wr]
    /\ ops' = ops + 1
    /\ UNCHANGED <<token_cache_file, ticks>>
    /\ UNCHANGED fmtVars
    /\ UNCHANGED extVars

\* A process restart: a new client is constructed on the cache file as it is.
Construct ==
    /\ ops < MaxOps
    /\ access_token' = init(token_cache_file, disk).access_token
    /\ token_expiry' = init(token_cache_file, disk).token_expiry
    /\ fetched' = NoFetch
    /\ last' = [NoOp EXCEPT !.op = "init", !.t0 = now]
    /\ ops' = ops + 1
    /\ UNCHANGED <<token_cache_file, disk, now, ticks>>
    /\ UNCHANGED fmtVars
    /\ UNCHANGED extVars

\* ------------------------------------------------------------------------
\* API request
\* ------------------------------------------------------------------------
NoHeader == [scheme |-> "None", token |-> NoToken]
CallerHeaders == {NoHeader, [scheme |-> "Basic", token |-> "custom"]}

\* f"Bearer {token}"
bearer(token) == [scheme |-> "Bearer", token |-> token]

\* Faulty variant: the caller's headers never replace the default.
request_headers_default(token, headers) == bearer(token)

\* req_headers of the first call: the caller's headers update the default.
request_headers(token, headers) ==
    IF headers # NoHeader THEN headers ELSE bearer(token)

\* the condition under which request refreshes the token and retries
should_refresh(status, force_token_refresh_on_401) ==
    status \in {401, 403} /\ force_token_refresh_on_401

Response(n, status) == [call |-> n, status |-> status]

ReqDone(s, t, f, l) ==
    /\ access_token' = s.access_token
    /\ token_expiry' = s.token_expiry
    /\ disk' = s.disk
    /\ now' = t
    /\ fetched' = f
    /\ last' = l

\* A caller invokes request(...) on the constructed client: the token, the
\* call, and on 401/403 the forced refresh and the second call.
Request ==
    /\ last.op = "init"
    /\ ops' = ops + 1
    /\ UNCHANGED <<token_cache_file, ticks>>
    /\ UNCHANGED fmtVars
    /\ UNCHANGED extVars
    /\ \E flag \in BOOLEAN, headers \in CallerHeaders :
       \E x1 \in ExchangeInputs(Self, token_cache_file, now, FALSE) :
       LET g1 == get_access_token(Self, token_cache_file, now, FALSE,
                                  x1.ep, x1.lat, x1.wr)
           f1 == IF g1.fetch # NoFetch THEN g1.fetch ELSE fetched
           l0 == [NoOp EXCEPT !.op = "request", !.flag = flag,
                              !.hdr = headers.token, !.t0 = now,
                              !.posts = g1.posts,
                              !.reply = ReplyKind(x1.ep, g1.posts),
                              !.wr = x1.wr]
       IN
       IF g1.raised # "none"
       THEN ReqDone(g1.s, g1.t, f1, [l0 EXCEPT !.raised = g1.raised])
       ELSE
       \E a1 \in Statuses \cup {Transport} :
       LET l1 == [l0 EXCEPT !.calls = 1, !.first = a1,
                            !.bearer1 = request_headers(g1.ret, headers),
                            !.held1 = g1.s.access_token]
       IN
       IF a1 = Transport
       THEN ReqDone(g1.s, g1.t, f1, [l1 EXCEPT !.raised = "RuntimeError"])
       ELSE IF ~should_refresh(a1, flag)
       THEN ReqDone(g1.s, g1.t, f1, [l1 EXCEPT !.resp = Response(1, a1)])
       ELSE
       \E x2 \in ExchangeInputs(g1.s, token_cache_file, g1.t, TRUE) :
       LET g2 == get_access_token(g1.s, token_cache_file, g1.t, TRUE,
                                  x2.ep, x2.lat, x2.wr)
           f2 == IF g2.fetch # NoFetch THEN g2.fetch ELSE f1
           l2 == [l1 EXCEPT !.forced = 1, !.posts = @ + g2.posts,
                            !.refresh_raised = g2.raised,
                            !.reply = ReplyKind(x2.ep, g2.posts),
                            !.wr = x2.wr]
           token == g2.s.access_token
       IN
       IF g2.raised \notin {"none", "RTEAuthError"}
       THEN ReqDone(g2.s, g2.t, f2, [l2 EXCEPT !.raised = g2.raised])
       ELSE IF token = NoToken
       THEN ReqDone(g2.s, g2.t, f2, [l2 EXCEPT !.resp = Response(1, a1)])
       ELSE
       \E a2 \in Statuses \cup {Transport} :
       LET l3 == [l2 EXCEPT !.calls = 2, !.second = a2,
                            !.bearer2 = bearer(token), !.held2 = token]
       IN
       IF a2 = Transport
       THEN ReqDone(g2.s, g2.t, f2, [l3 EXCEPT !.raised = "RequestException"])
       ELSE ReqDone(g2.s, g2.t, f2, [l3 EXCEPT !.resp = Response(2, a2)])

\* The token lifecycle of a client.
Next ==
    \/ Tick
    \/ Construct
    \/ GetAccessToken

Spec == Init /\ [][Next]_vars

\* One call of request on a client, at any time after its construction.
NextRequest ==
    \/ Tick
    \/ Request

SpecRequest == Init /\ [][NextRequest]_vars


ClientIdle ==
    /\ access_token = NoToken
    /\ token_expiry = 0
    /\ token_cache_file = FALSE
    /\ disk = [kind |-> "missing", access_token |-> NoToken, expiry |-> Absent]
    /\ now = 0
    /\ ticks = 0
    /\ ops = 0
    /\ fetched = NoFetch
    /\ last = NoOp

InitFormat ==
    /\ ClientIdle
    /\ fmt_pc = "input"
    /\ \E idx \in Indexes, itz \in {<<UTC, NoTz>>, <<NoTz, NoTz>>,
                                    <<NoTz, Paris>>},
          st \in StartTimes, stz \in BoundZones,
          en \in EndTimes, etz \in BoundZones,
          f \in Freqs, is \in BOOLEAN, ie \in BOOLEAN, iee \in BOOLEAN :
          args = [ts |-> SeriesOf(itz[1], idx),
                  start |-> [t |-> st, tz |-> stz],
                  end |-> [t |-> en, tz |-> etz],
                  ts_tz |-> itz[2], freq |-> f,
                  include_start |-> is, include_end |-> ie,
                  include_equal_end |-> iee]
    /\ out1 = NoSeries
    /\ out2 = NoSeries
    /\ ExtIdle

Apply(ts) ==
    format_ts(ts, args.start, args.end, args.ts_tz, args.freq,
              args.include_start, args.include_end, args.include_equal_end)

\* The caller formats the series.
Format ==
    /\ fmt_pc = "input"
    /\ out1' = Apply(args.ts)
    /\ fmt_pc' = "formatted"
    /\ UNCHANGED <<args, out2>>
    /\ UNCHANGED clientVars
    /\ UNCHANGED extVars

\* The caller formats the formatted series again, with the same arguments.
Reformat ==
    /\ fmt_pc = "formatted"
    /\ out1.err = NoError
    /\ out2' = Apply([tz |-> out1.tz, idx |-> out1.idx, vals |-> out1.vals])
    /\ fmt_pc' = "reformatted"
    /\ UNCHANGED <<args, out1>>
    /\ UNCHANGED clientVars
    /\ UNCHANGED extVars

NextFormat ==
    \/ Format
    \/ Reformat

SpecFormat == InitFormat /\ [][NextFormat]_vars

\* ------------------------------------------------------------------------
\* One call of get_hourly_load
\* ------------------------------------------------------------------------
FormatIdle ==
    /\ fmt_pc = "off"
    /\ args = FmtIdle
    /\ out1 = NoSeries
    /\ out2 = NoSeries

InitLoad ==
    /\ ClientIdle
    /\ FormatIdle
    /\ ext_pc = "input"
    /\ res = NoRes
    /\ \E st \in LoadStarts, en \in LoadEnds, z \in LoadZones :
          /\ st < en
          /\ \E h \in Answers(st, Min(en, THRESHOLD.t), HourMinutes),
                q \in Answers(Max(st, THRESHOLD.t), en, 15) :
                job = [fn |-> "get_hourly_load",
                       start |-> [t |-> st, tz |-> z[1]],
                       end |-> [t |-> en, tz |-> z[2]],
                       hourly |-> h, quarter |-> q]

GetHourlyLoad ==
    /\ ext_pc = "input"
    /\ job.fn = "get_hourly_load"
    /\ res' = get_hourly_load(job.start, job.end, job.hourly, job.quarter)
    /\ ext_pc' = "done"
    /\ UNCHANGED job
    /\ UNCHANGED clientVars
    /\ UNCHANGED fmtVars

NextLoad == GetHourlyLoad

SpecLoad == InitLoad /\ [][NextLoad]_vars

\* ------------------------------------------------------------------------
\* One call of get_averaged
\* ------------------------------------------------------------------------
InitMeteo ==
    /\ ClientIdle
    /\ FormatIdle
    /\ ext_pc = "input"
    /\ res = NoRes
    /\ \E a \in [1..Len(Cities) -> CityAnswers] :
          job = [fn |-> "get_averaged", answers |-> a]

GetAveraged ==
    /\ ext_pc = "input"
    /\ job.fn = "get_averaged"
    /\ res' = get_averaged(job.answers)
    /\ ext_pc' = "done"
    /\ UNCHANGED job
    /\ UNCHANGED clientVars
    /\ UNCHANGED fmtVars

NextMeteo == GetAveraged

SpecMeteo == InitMeteo /\ [][NextMeteo]_vars

\* ------------------------------------------------------------------------
\* One call of get_short_term_consumption
\* ------------------------------------------------------------------------
InitConsumption ==
    /\ ClientIdle
    /\ FormatIdle
    /\ ext_pc = "input"
    /\ res = NoRes
    /\ \E ty \in TypesArgs, w \in ConsWindows, a \in ConsAnswers :
          job = [fn |-> "get_short_term_consumption", types |-> ty,
                 start_date |-> w[1], end_date |-> w[2], answer |-> a]

GetShortTermConsumption ==
    /\ ext_pc = "input"
    /\ job.fn = "get_short_term_consumption"
    /\ res' = get_short_term_consumption(job.types, job.start_date,
                                         job.end_date, job.answer)
    /\ ext_pc' = "done"
    /\ UNCHANGED job
    /\ UNCHANGED clientVars
    /\ UNCHANGED fmtVars

NextConsumption == GetShortTermConsumption

SpecConsumption == InitConsumption /\ [][NextConsumption]_vars

\* ========================================================================
\* Properties
\* ========================================================================

IsGetStep == ops' = ops + 1 /\ last'.op = "get_access_token"

AuthStatuses == {401, 403}

\* C1 (as claimed): one call of request makes at most two API calls and at
\* most one forced refresh; a first 401/403 with refresh enabled is followed
\* by exactly one forced refresh and exactly one retried call whose response
\* is returned; any other first status, or refresh disabled, returns the
\* first response after one call and no forced refresh.
C1_TwoCallsOneRefresh ==
    last.op = "request" =>
        /\ last.calls <= 2
        /\ last.forced <= 1
        /\ (last.first \in AuthStatuses /\ last.flag) =>
              /\ last.forced = 1
              /\ last.calls = 2
              /\ (last.second \in Statuses =>
                    last.resp = Response(2, last.second))
        /\ (last.first \in Statuses
            /\ ~(last.first \in AuthStatuses /\ last.flag)) =>
              /\ last.calls = 1
              /\ last.forced = 0
              /\ last.resp = Response(1, last.first)

\* C2 (as claimed): when the first response is 401/403, refresh is enabled
\* and the forced refresh fails with the auth error, request does not raise
\* and returns the response of the first call, with no further API call.
C2_RefreshFailureReturnsOriginal ==
    (/\ last.op = "request"
     /\ last.first \in AuthStatuses
     /\ last.flag
     /\ last.refresh_raised = "RTEAuthError") =>
        /\ last.raised = "none"
        /\ last.calls = 1
        /\ last.resp = Response(1, last.first)

\* C3: after a successful exchange at time T that declared expires_in=3600,
\* a get_access_token() without force_refresh invoked before T+3590 returns
\* that token with no call to the token endpoint, and one invoked at or
\* after T+3590 performs exactly one exchange.
C3_ReuseUntilMargin ==
    [][(IsGetStep /\ ~last'.force /\ fetched.expires_in = 3600) =>
         IF now < fetched.at + 3590
         THEN /\ last'.posts = 0
              /\ last'.raised = "none"
              /\ last'.ret = fetched.token
         ELSE last'.posts = 1]_vars

\* C3 witness: the token fetched with expires_in=3600 is reused one second
\* before the margin.
C3_Witness ==
    /\ last.op = "get_access_token"
    /\ ~last.force
    /\ fetched.expires_in = 3600
    /\ last.t0 = fetched.at + 3589
    /\ last.posts = 0
    /\ last.ret = fetched.token

\* C4 (as claimed): when the exchange succeeds but the cache write fails,
\* get_access_token returns the new token without raising, and the token and
\* expiry in memory are those of the new token.
C4_WriteFailureNotRaised ==
    (/\ last.op = "get_access_token"
     /\ last.reply = "granted"
     /\ last.wr # "ok") =>
        /\ last.raised = "none"
        /\ last.ret = fetched.token
        /\ access_token = fetched.token
        /\ token_expiry > fetched.at

C6_TransportAsRuntimeError ==
    (last.op = "request"
     /\ (last.first = Transport \/ last.second = Transport)) =>
        /\ last.raised = "RuntimeError"
        /\ (last.first = Transport => last.calls = 1)
        /\ (last.second = Transport => last.calls = 2)

\* A cache file the constructor cannot take a token record from: missing or
\* unreadable, not JSON, not an object, an object without its token or its
\* expiry, or an expiry that is not a number.
Unloadable(d) == d.kind # "object" \/ d.expiry = NonNumeric

Malformed(d) ==
    Unloadable(d) \/ d.access_token = NoToken \/ d.expiry = Absent

Empty == access_token = NoToken /\ token_expiry = 0

\* C7 (as claimed): constructing a client on a missing, unreadable or
\* malformed cache file leaves no token and expiry 0.
C7_MalformedCacheIsEmpty ==
    (last.op = "init" /\ token_cache_file /\ Malformed(disk)) => Empty

\* C7 (amended): constructing a client on such a file leaves it without a
\* valid token: no token and expiry 0 when the file is missing, not JSON,
\* not an object or holds a non-numeric expiry, the fields of the record
\* (expiry 0 for a missing one) when it is an object that lacks a field;
\* the next get_access_token() performs a token exchange.
C7_MalformedCacheIsCold ==
    /\ [](last.op = "init" /\ token_cache_file /\ Malformed(disk) =>
            /\ last.raised = "none"
            /\ ~is_token_valid(Self, now)
            /\ (Unloadable(disk) => Empty)
            /\ (~Unloadable(disk) =>
                  /\ access_token = disk.access_token
                  /\ token_expiry =
                        (IF disk.expiry = Absent THEN 0 ELSE disk.expiry)))
    /\ [][(/\ last.op = "init" /\ token_cache_file /\ Malformed(disk)
           /\ IsGetStep) => last'.posts = 1]_vars

\* C7 witness: a client was constructed on a record without its token, and
\* a token exchange followed.
C7_Witness ==
    /\ last.op = "get_access_token"
    /\ last.posts = 1
    /\ ~last.force
    /\ ops = 1
    /\ token_cache_file
    /\ disk.kind = "object"
    /\ disk.access_token = NoToken
    /\ disk.expiry = 5000

\* ------------------------------------------------------------------------
\* format_ts
\* ------------------------------------------------------------------------

\* an input that is a time series: aware index, strictly increasing
IsTimeSeries(ts) ==
    /\ ts.tz.aware
    /\ \A i \in 1..(Len(ts.idx) - 1) : ts.idx[i] < ts.idx[i + 1]

AwareBounds == args.start.tz.aware /\ args.end.tz.aware

\* consecutive points of the index are exactly one step apart
Contiguous(idx, step) ==
    \A i \in 1..(Len(idx) - 1) : idx[i + 1] = idx[i] + step

\* each point carries the input's value at that instant, or the marker
Carries(o, ts) ==
    \A i \in 1..Len(o.idx) :
        \/ \E j \in 1..Len(ts.idx) :
              ts.idx[j] = o.idx[i] /\ ts.vals[j] = o.vals[i]
        \/ /\ \A j \in 1..Len(ts.idx) : ts.idx[j] # o.idx[i]
           /\ o.vals[i] = NaN

\* the index runs from the start edge up to the end edge
FromEdgeToEdge(idx, step, first, final) ==
    IF first > final THEN idx = <<>>
    ELSE /\ Len(idx) > 0
         /\ idx[1] = first
         /\ idx[Len(idx)] <= final
         /\ idx[Len(idx)] + step > final

Trimmed(ts) ==
    /\ ~args.include_equal_end
    /\ Len(ts.idx) > 0
    /\ ts.idx[Len(ts.idx)] + Timedelta(args.freq) = args.end.t

EndEdge(ts) ==
    cut_end_of(args.end, args.include_end)
        - (IF Trimmed(ts) THEN Timedelta(args.freq) ELSE 0)

\* C8 (as claimed): for every tz-aware series, the empty one included, with
\* aware bounds and a valid frequency, format_ts returns a series on the UTC
\* grid from the start edge to the end edge, points one step apart, each
\* carrying the input's value at that instant or the missing marker.
C8_OutputIsGrid ==
    (/\ fmt_pc # "input"
     /\ IsTimeSeries(args.ts)
     /\ AwareBounds
     /\ freq_parses(args.freq)) =>
        /\ out1.err = NoError
        /\ out1.tz = UTC
        /\ Contiguous(out1.idx, Timedelta(args.freq))
        /\ FromEdgeToEdge(out1.idx, Timedelta(args.freq),
                          cut_start_of(args.start, args.include_start),
                          EndEdge(args.ts))
        /\ Carries(out1, args.ts)

\* C9 (as claimed): format_ts applied to its own output with the same
\* bounds, flags and frequency returns the same series.
C9_Idempotent ==
    fmt_pc = "reformatted" =>
        /\ out2.err = NoError
        /\ out2.idx = out1.idx
        /\ out2.vals = out1.vals

\* C10 (as claimed): format_ts fails with 'Failed to create target index'
\* whenever the frequency cannot be parsed or start > end.
C10_GridConstructionError ==
    (/\ fmt_pc # "input"
     /\ AwareBounds
     /\ (args.ts.tz.aware \/ args.ts_tz.aware)
     /\ (~freq_parses(args.freq) \/ args.start.t > args.end.t)) =>
        out1.err = TargetIndexError

\* the two errors of the timezone checks (lines 53-62)
InvariantErrors == {NaiveBoundsError, NaiveIndexError}

NaiveInput ==
    \/ ~args.start.tz.aware
    \/ ~args.end.tz.aware
    \/ (~args.ts.tz.aware /\ ~args.ts_tz.aware)

\* C11: format_ts fails with the timezone ValueError and returns no series
\* whenever start or end is tz-naive, or the index is tz-naive and no ts_tz
\* is given; in no other case does it raise that error.
C11_NaiveInputsRejected ==
    fmt_pc # "input" =>
        /\ NaiveInput => (out1.err \in InvariantErrors /\ out1.idx = <<>>)
        /\ ~NaiveInput => out1.err \notin InvariantErrors

\* C11 witness: an aware series and an aware start with a naive end were
\* rejected.
C11_Witness ==
    /\ fmt_pc = "formatted"
    /\ args.ts.tz.aware
    /\ args.start.tz.aware
    /\ ~args.end.tz.aware
    /\ out1.err = NaiveBoundsError

\* x taken down, or up, to a multiple of step on the wall clock of its zone
floor_to(x, step) == x.t - ((x.t + x.tz.off) % step)

ceil_to(x, step) ==
    IF (x.t + x.tz.off) % step = 0 THEN x.t ELSE floor_to(x, step) + step

\* format_ts returned a non-empty grid for an aware series
GridReturned ==
    /\ fmt_pc # "input"
    /\ args.ts.tz.aware
    /\ out1.err = NoError
    /\ Len(out1.idx) > 0

\* the first and the last point of the returned grid, for edges taken to a
\* multiple of unit: the first point is the start edge, the last one the end
\* edge, one step earlier when the trim applied
EdgesAt(unit) ==
    /\ out1.idx[1] = (IF args.include_start THEN floor_to(args.start, unit)
                      ELSE ceil_to(args.start, unit))
    /\ out1.idx[Len(out1.idx)] =
          (IF args.include_end THEN ceil_to(args.end, unit)
           ELSE floor_to(args.end, unit))
          - (IF Trimmed(args.ts) THEN Timedelta(args.freq) ELSE 0)

\* C16 (as claimed): for every frequency the first grid point is start
\* floored to the frequency when include_start and ceiled to it otherwise,
\* and the end edge before the trim is end ceiled to the frequency when
\* include_end and floored to it otherwise.
C16_EdgesAtFrequency ==
    GridReturned => EdgesAt(Timedelta(args.freq))

\* ------------------------------------------------------------------------
\* request: the Authorization header
\* ------------------------------------------------------------------------
BearerOf(token) == [scheme |-> "Bearer", token |-> token]

\* the forced refresh of this request obtained a new token
RefreshSucceeded ==
    last.forced = 1 /\ last.refresh_raised = "none" /\ last.reply = "granted"

\* the retried call carries the token held at that moment, the one the
\* forced refresh obtained when it succeeded
RetryCarriesHeld ==
    last.calls = 2 =>
        /\ last.bearer2 = BearerOf(last.held2)
        /\ last.held2 = access_token
        /\ RefreshSucceeded => last.held2 = fetched.token

\* C19 (as claimed): every API call of request carries Authorization:
\* Bearer <token> with the token the manager holds at that moment, whatever
\* headers the caller supplies; after a successful forced refresh the
\* retried call carries the new token.
C19_BearerOnEveryCall ==
    last.op = "request" =>
        /\ last.calls >= 1 => last.bearer1 = BearerOf(last.held1)
        /\ RetryCarriesHeld

\* C19 (amended): the first API call carries the caller's Authorization
\* header when the caller supplies one and Authorization: Bearer <token
\* held> otherwise; the retried call always carries Bearer <token held>,
\* the new token after a successful forced refresh.
C19_BearerUnlessCallerAuthorization ==
    last.op = "request" =>
        /\ last.calls >= 1 =>
              last.bearer1 = (IF last.hdr = NoToken THEN BearerOf(last.held1)
                              ELSE [scheme |-> "Basic", token |-> last.hdr])
        /\ RetryCarriesHeld

\* C19 witness: the caller supplied its own Authorization header, the first
\* call carried it, and after a successful forced refresh the retried call
\* carried the new token as a Bearer.
C19_Witness ==
    /\ last.op = "request"
    /\ last.hdr = "custom"
    /\ last.bearer1.scheme = "Basic"
    /\ last.calls = 2
    /\ RefreshSucceeded
    /\ last.held1 # fetched.token
    /\ last.bearer2 = BearerOf(fetched.token)

\* ------------------------------------------------------------------------
\* get_access_token: what a successful exchange stores
\* ------------------------------------------------------------------------

\* the expiry of a token obtained at time t with the declared lifetime
DeclaredExpiry(t, expires_in) ==
    IF expires_in = Absent THEN t + DefaultLifetime ELSE t + expires_in

\* C17 (as claimed): after a successful exchange at time now the stored
\* expiry is now + expires_in for every declared lifetime, 0 included, and
\* now + 3600 only when the field is absent; the token in memory and the
\* cache record both hold the new token and that expiry.
C17_ExchangeStoresDeclaredExpiry ==
    (last.op = "get_access_token" /\ last.reply = "granted") =>
        /\ access_token = fetched.token
        /\ token_expiry = DeclaredExpiry(fetched.at, fetched.expires_in)
        /\ token_cache_file =>
              disk = [kind |-> "object", access_token |-> fetched.token,
                      expiry |-> DeclaredExpiry(fetched.at,
                                                fetched.expires_in)]

\* ------------------------------------------------------------------------
\* get_hourly_load
\* ------------------------------------------------------------------------
LoadDone == ext_pc = "done" /\ job.fn = "get_hourly_load"

\* an aware window with start < T < end
Spanning ==
    /\ job.start.tz.aware
    /\ job.end.tz.aware
    /\ job.start.t < THRESHOLD.t
    /\ THRESHOLD.t < job.end.t

\* the hours h with start <= h < end
HoursIn(start, end) ==
    {h \in 0..Horizon : h % HourMinutes = 0 /\ start.t <= h /\ h < end.t}

\* what hour h is to carry: before T the sample of the hourly fetch, from T
\* on the mean of the 15-minute samples of that hour
LoadAt(h) ==
    IF h < THRESHOLD.t THEN value_at(job.hourly.idx, job.hourly.vals, h)
    ELSE mean(job.quarter.vals,
              {i \in 1..Len(job.quarter.idx) :
                  h <= job.quarter.idx[i]
                  /\ job.quarter.idx[i] < h + HourMinutes})

\* C12 (as claimed): for every aware window with start < T < end,
\* get_hourly_load returns exactly one sample for each hour h with
\* start <= h < end and none outside [start, end), whichever samples
\* upstream delivered; hours before T carry the value of the hourly fetch,
\* hours from T on the mean of that hour's 15-minute samples.
C12_OneSamplePerHour ==
    (LoadDone /\ Spanning) =>
        /\ res.out.err = NoError
        /\ res.out.idx = SortedSeq(HoursIn(job.start, job.end))
        /\ \A k \in 1..Len(res.out.idx) :
              res.out.vals[k] = LoadAt(res.out.idx[k])

\* the series holds exactly one sample at x, and it is v
OnlySampleAt(o, x, v) ==
    /\ Cardinality({i \in 1..Len(o.idx) : o.idx[i] = x}) = 1
    /\ \A i \in 1..Len(o.idx) : o.idx[i] = x => o.vals[i] = v

\* both segments of the spanning branch were built
Stitched ==
    /\ LoadDone
    /\ Spanning
    /\ res.before.err = NoError
    /\ res.after.err = NoError

\* C18: in the spanning branch, at every timestamp both the hourly segment
\* and the downsampled segment contain, the stitched series holds exactly
\* one sample, with the value of the downsampled (post-threshold) segment,
\* and so does the series returned.
C18_SeamTakesPostValue ==
    Stitched =>
        \A x \in Stamps(res.before) \cap Stamps(res.after) :
            /\ OnlySampleAt(res.stitched, x,
                            value_at(res.after.idx, res.after.vals, x))
            /\ (res.out.err = NoError /\ x \in Stamps(res.out)) =>
                  OnlySampleAt(res.out, x,
                               value_at(res.after.idx, res.after.vals, x))

\* C18 witness: the hourly fetch delivered a sample at T, both segments
\* hold T with different values, and the series returned carries the mean
\* of the 15-minute samples there.
C18_Witness ==
    /\ Stitched
    /\ THRESHOLD.t \in Stamps(res.before)
    /\ THRESHOLD.t \in Stamps(res.after)
    /\ value_at(res.before.idx, res.before.vals, THRESHOLD.t)
          = HourlyLoad(THRESHOLD.t)
    /\ res.out.err = NoError
    /\ value_at(res.out.idx, res.out.vals, THRESHOLD.t) = 18

\* ------------------------------------------------------------------------
\* get_averaged
\* ------------------------------------------------------------------------

\* every city was answered with status 200
AllAnswered ==
    \A c \in 1..Len(Cities) : job.answers[c].status = 200

\* the weighted aggregate at row k with a missing value counted as zero
RECURSIVE SkipMissingSum(_, _)
SkipMissingSum(k, c) ==
    IF c > Len(Cities) THEN 0
    ELSE (IF res.temp[c][k] = NaN THEN 0
          ELSE res.temp[c][k] * Weight(Cities[c]))
         + SkipMissingSum(k, c + 1)

\* C13 (as claimed): in the weighted aggregation a location whose value is
\* missing at a timestamp contributes zero and never makes the result
\* missing; when every location is missing there the result is 0.
C13_MissingContributesZero ==
    (ext_pc = "done" /\ job.fn = "get_averaged" /\ AllAnswered) =>
        /\ res.err = NoError
        /\ \A k \in 1..Len(res.datetime) :
              /\ res.temp_FR[k] # NaN
              /\ res.temp_FR[k] = SkipMissingSum(k, 1) \div total_weight(1)

\* ------------------------------------------------------------------------
\* get_short_term_consumption
\* ------------------------------------------------------------------------

\* the extractor was called with a window and the endpoint answered 200
Extracted ==
    /\ ext_pc = "done"
    /\ job.fn = "get_short_term_consumption"
    /\ job.answer.status = 200

\* the variants the response holds a block for
VariantsPresent ==
    {job.answer.short_term[e].type : e \in 1..Len(job.answer.short_term)}

\* what the response delivered for a variant at a point, or the marker
Delivered(type, p) ==
    IF \E e \in 1..Len(job.answer.short_term) :
          /\ job.answer.short_term[e].type = type
          /\ \E k \in 1..Len(job.answer.short_term[e].values) :
                job.answer.short_term[e].values[k].start_date = p
    THEN ConsValue(type, p)
    ELSE NaN

\* the series the result holds for a variant
SeriesFor(type) ==
    LET P == {i \in 1..Len(res.rows) : res.rows[i].type = type}
    IN  [idx |-> [k \in 1..Cardinality(P) |-> res.rows[kth(P, k)].start_date],
         vals |-> [k \in 1..Cardinality(P) |-> res.rows[kth(P, k)].value]]

\* C14 (as claimed): given the window [start, end) the extractor queries
\* upstream with [floor(start, day), ceil(end, day)] and returns, for a
\* variant, the 15-minute grid from floor(start, 15min) to ceil(end, 15min)
\* minus one step, with the missing marker where upstream delivered nothing.
C14_WidenedQueryNarrowedGrid ==
    (Extracted /\ job.start_date # NoDate /\ job.end_date # NoDate) =>
        /\ res.err = NoError
        /\ res.params.start_date.t = floor_to(job.start_date, 24 * HourMinutes)
        /\ res.params.end_date.t = ceil_to(job.end_date, 24 * HourMinutes)
        /\ \A type \in VariantsPresent :
              LET grid == date_range(floor_to(job.start_date, 15),
                                     ceil_to(job.end_date, 15) - 15, 15)
              IN  /\ SeriesFor(type).idx = grid
                  /\ \A k \in 1..Len(grid) :
                        SeriesFor(type).vals[k] = Delivered(type, grid[k])

\* C15 (as claimed): the result holds one normalized series for each variant
\* present in the response, keyed by its type, and nothing else; a requested
\* variant the response lacks has no entry and is no error.
C15_OneSeriesPerVariant ==
    Extracted =>
        /\ res.err = NoError
        /\ {res.rows[i].type : i \in 1..Len(res.rows)} = VariantsPresent
        /\ \A type \in VariantsPresent :
              /\ Len(SeriesFor(type).idx) > 0
              /\ Contiguous(SeriesFor(type).idx, 15)

====
